---- MODULE Spec2Model ----
(***************************************************************************)
(* Recipe-box placeholder substitution: the replacement-set builder, the   *)
(* method formatter, the placeholder substitution engine with its edit     *)
(* session, and the multi-page creation loop.                              *)
(*                                                                         *)
(* A JavaScript string is a sequence of one-code-unit strings, so that     *)
(* searching, replacing and joining are done on characters.  BULLET stands *)
(* for the single code unit U+2022.                                        *)
(***************************************************************************)
EXTENDS Naturals, Integers, Sequences, FiniteSets, TLC

VARIABLES
  variant,       \* which copy of the engine runs: 1 = with the empty-page return, 2 = without
  boxData,       \* the fetched BoxData the replacements are built from
  mode,          \* "frontpage": replacePlaceholders; "recipes": replacePlaceholdersWithFormatting
  replacements,  \* the engine call's argument: simple token -> text, in property order
  formattedReplacements,  \* its second argument: token -> headers and content
  page,          \* committed plain text of every text range of the current page
  pc,            \* position of the engine call
  idx,           \* number of ranges of session.contents already processed
  staged,        \* text of every range as written in the open session
  calls,         \* host calls issued so far, in order
  pass,          \* number of engine calls started on this page
  before,        \* text of every range when the current engine call started
  outcome,       \* how the last engine call settled
  fnIn,          \* input of the pure builder / formatter functions
  fnOut,         \* their last result
  recipes,       \* the recipes createAllRecipePages is called with
  imageRefs,     \* its optional second argument
  doc,           \* the pages added to the design, in order
  loopPc,        \* position of createAllRecipePages
  i,             \* its loop index (0-based)
  successCount,
  failCount,
  events,        \* addPage attempts and delays of createAllRecipePages, in order
  thrown,        \* the error createAllRecipePages settled with
  bookBoxData,   \* the box data createCompleteRecipeBook is called with
  version,       \* which App runs: "app" (src/app.tsx) or "part_001"
  boxes,         \* App state: the boxes fetchBoxes gave
  selectedBox,   \* App state
  selectedWeek,  \* App state
  appBoxData,    \* App state boxData: Null or the fetched BoxData
  isLoading,     \* App state
  isCreatingDocument,  \* App state
  error,         \* App state: the error message shown
  success,       \* App state: the success message shown
  loadPc,        \* position of loadBoxes
  submitPc,      \* position of handleSubmit
  createPc,      \* position of createRecipeDocument: the host call it awaits
  job,           \* what the running createRecipeDocument closed over, and its loop position
  opsLog,        \* the handler invocations so far and how each ended
  hostCalls,     \* the host calls createRecipeDocument issued so far, in order
  uiLog,         \* the setter calls of createRecipeDocument so far, in order
  fetchArgs,     \* the arguments of the fetchBoxData call in flight
  boxDataArgs    \* the arguments of the fetchBoxData call that gave boxData

engineVars == <<variant, boxData, mode, replacements, formattedReplacements, page, pc, idx, staged, calls, pass, before, outcome>>
fnVars     == <<fnIn, fnOut>>
loopVars   == <<recipes, imageRefs, doc, loopPc, i, successCount, failCount, events, thrown, bookBoxData>>
appVars    == <<version, boxes, selectedBox, selectedWeek, appBoxData, isLoading, isCreatingDocument, error, success, loadPc, submitPc, createPc, job, opsLog, hostCalls, uiLog, fetchArgs, boxDataArgs>>
vars       == <<engineVars, fnVars, loopVars, appVars>>

(***************************************************************************)
(* Strings                                                                 *)
(***************************************************************************)
BULLET == "bullet"
\* BACKTICK stands for the single code unit U+0060
BACKTICK == "backtick"

RECURSIVE Concat(_)
\* the concatenation of a sequence of sequences
Concat(ss) == IF ss = <<>> THEN <<>> ELSE Head(ss) \o Concat(Tail(ss))

RECURSIVE join(_, _)
\* Array.prototype.join
join(arr, sep) ==
  IF arr = <<>> THEN <<>>
  ELSE IF Len(arr) = 1 THEN arr[1]
  ELSE arr[1] \o sep \o join(Tail(arr), sep)

IsWhiteSpace(c) == c \in {" ", "\n", "\t"}

RECURSIVE trimStart(_)
trimStart(s) ==
  IF s # <<>> /\ IsWhiteSpace(Head(s)) THEN trimStart(Tail(s)) ELSE s

RECURSIVE trimEnd(_)
trimEnd(s) ==
  IF s # <<>> /\ IsWhiteSpace(s[Len(s)]) THEN trimEnd(SubSeq(s, 1, Len(s) - 1)) ELSE s

\* String.prototype.trim
trim(s) == trimEnd(trimStart(s))

\* a string used as a condition: the empty string is falsy
Truthy(s) == s # <<>>

Digit(d) == <<"0", "1", "2", "3", "4", "5", "6", "7", "8", "9">>[d + 1]

RECURSIVE NumberToString(_)
\* Number.prototype.toString of a non-negative integer
NumberToString(n) ==
  IF n < 10 THEN <<Digit(n)>> ELSE NumberToString(n \div 10) \o <<Digit(n % 10)>>

\* JavaScript values that reach the builders as `index`
Undefined == [tag |-> "undefined", n |-> 0]
NaN       == [tag |-> "NaN", n |-> 0]
Num(n)    == [tag |-> "number", n |-> n]

\* v + 1
PlusOne(v) == IF v.tag = "number" THEN Num(v.n + 1) ELSE NaN

\* `${v}` of a number value
TemplateNumber(v) ==
  IF v.tag = "number" THEN NumberToString(v.n) ELSE <<"N", "a", "N">>

\* s occurs in str at position p (1-based)
OccursAt(str, s, p) ==
  /\ p >= 1
  /\ p + Len(s) - 1 <= Len(str)
  /\ SubSeq(str, p, p + Len(s) - 1) = s

\* String.prototype.includes
includes(str, s) == \E p \in 1..(Len(str) + 1) : OccursAt(str, s, p)

\* the positions at which s occurs in str
Occurrences(str, s) == {p \in 1..Len(str) : OccursAt(str, s, p)}

(***************************************************************************)
(* String.prototype.replace with a global RegExp and a replacement string  *)
(***************************************************************************)
\* the template literal `{{${placeholder}}}`
Placeholder(placeholder) == <<"{", "{">> \o placeholder \o <<"}", "}">>

\* a pattern that takes single braces for the delimiter
RegExpLiteral_SingleBrace(placeholder) == <<"{">> \o placeholder \o <<"}">>

\* a pattern that leaves the closing braces out
RegExpLiteral_NoClose(placeholder) == <<"{", "{">> \o placeholder

\* What new RegExp(`\\{\\{${placeholder}\\}\\}`, "g") matches: \{ and \} match the
\* braces, and every character of a token the builders make is a word character,
\* which matches itself.
RegExpLiteral(placeholder) == <<"{", "{">> \o placeholder \o <<"}", "}">>

\* the least element of a non-empty set of positions
First(ps) == CHOOSE q \in ps : \A r \in ps : q <= r

RECURSIVE GetSubstitutionFrom(_, _, _, _, _)
\* the expansion of the replacement string from its position m on
GetSubstitutionFrom(matched, str, position, replacement, m) ==
  LET refs == {q \in m..(Len(replacement) - 1) :
                 /\ replacement[q] = "$"
                 /\ replacement[q + 1] \in {"$", "&", BACKTICK, "'"}}
  IN  IF refs = {} THEN SubSeq(replacement, m, Len(replacement))
      ELSE LET q   == First(refs)
               c   == replacement[q + 1]
               ref == CASE c = "$" -> <<"$">>
                        [] c = "&" -> matched
                        [] c = BACKTICK -> SubSeq(str, 1, position - 1)
                        [] c = "'" -> SubSeq(str, position + Len(matched), Len(str))
           IN  SubSeq(replacement, m, q - 1) \o ref
                 \o GetSubstitutionFrom(matched, str, position, replacement, q + 2)

\* The expansion of a replacement string for one match (ECMAScript GetSubstitution,
\* for a pattern with no capture groups): $$ is a dollar, $& the match, $ and a backtick the text
\* before the match, $' the text after it; any other $ stays as written.
GetSubstitution(matched, str, position, replacement) ==
  GetSubstitutionFrom(matched, str, position, replacement, 1)

RECURSIVE ReplaceFrom(_, _, _, _)
\* the global replace, scanning str from position p: the text up to the next match,
\* the expansion of the replacement for that match, and on from the end of the match
ReplaceFrom(str, lit, replacement, p) ==
  LET matches == {q \in p..Len(str) : OccursAt(str, lit, q)}
  IN  IF matches = {} THEN SubSeq(str, p, Len(str))
      ELSE LET q == First(matches)
           IN  SubSeq(str, p, q - 1) \o GetSubstitution(lit, str, q, replacement)
                 \o ReplaceFrom(str, lit, replacement, q + Len(lit))

\* String.prototype.replace(new RegExp(..., "g"), replacement)
replace(str, placeholder, replacement) ==
  ReplaceFrom(str, RegExpLiteral(placeholder), replacement, 1)

(***************************************************************************)
(* Objects: the entries of a Record<string, T> in property order           *)
(***************************************************************************)
Keys(obj) == {obj[k].key : k \in 1..Len(obj)}

HasKey(obj, key) == \E k \in 1..Len(obj) : obj[k].key = key

Get(obj, key) == obj[CHOOSE k \in 1..Len(obj) : obj[k].key = key].val

\* Object.assign(target, source): every property of source is put on target in
\* source order, so a key keeps the place of its first appearance and gets the
\* value of its last
ObjectAssign(target, source) ==
  LET all      == target \o source
      isFirst(k) == \A j \in 1..(k - 1) : all[j].key # all[k].key
      isLast(k)  == \A j \in (k + 1)..Len(all) : all[j].key # all[k].key
      firsts   == {k \in 1..Len(all) : isFirst(k)}
      nth(m)   == CHOOSE k \in firsts : Cardinality({j \in firsts : j < k}) = m - 1
      lastOf(key) == CHOOSE k \in 1..Len(all) : all[k].key = key /\ isLast(k)
  IN  [m \in 1..Cardinality(firsts) |->
         [key |-> all[nth(m)].key, val |-> all[lastOf(all[nth(m)].key)].val]]

(***************************************************************************)
(* Method formatter                                                        *)
(***************************************************************************)
Bold(header) == <<"*", "*">> \o header \o <<"*", "*">>

\* a MethodStep: header is optional
Step(header, text)   == [hasHeader |-> TRUE, header |-> header, text |-> text]
StepNoHeader(text)   == [hasHeader |-> FALSE, header |-> <<>>, text |-> text]

\* a formatter that tests the header without trimming it
formatMethodSteps_NoTrim(method) ==
  LET stepParts(step) ==
        IF step.hasHeader /\ Truthy(step.header)
          THEN <<Bold(step.header), step.text>>
          ELSE <<step.text>>
      steps == [k \in 1..Len(method) |-> join(stepParts(method[k]), <<"\n">>)]
  IN  join(steps, <<"\n", "\n">>)

\* the page generator's formatMethodSteps(method)
formatMethodSteps(method) ==
  LET stepParts(step) ==
        IF step.hasHeader /\ Truthy(step.header) /\ Truthy(trim(step.header))
          THEN <<Bold(step.header), step.text>>
          ELSE <<step.text>>
      steps == [k \in 1..Len(method) |-> join(stepParts(method[k]), <<"\n">>)]
  IN  join(steps, <<"\n", "\n">>)

\* an engine formatter that tests the header without trimming it
formatMethodStepsHC_NoTrim(headers, content) ==
  LET step(k) ==
        IF k <= Len(headers) /\ Truthy(headers[k])
          THEN <<Bold(headers[k]), content[k]>>
          ELSE <<content[k]>>
      steps == [k \in 1..Len(content) |-> join(step(k), <<"\n">>)]
  IN  join(steps, <<"\n", "\n">>)

\* the engine's formatMethodSteps(headers, content)
formatMethodStepsHC(headers, content) ==
  LET step(k) ==
        IF k <= Len(headers) /\ Truthy(headers[k]) /\ Truthy(trim(headers[k]))
          THEN <<Bold(headers[k]), content[k]>>
          ELSE <<content[k]>>
      steps == [k \in 1..Len(content) |-> join(step(k), <<"\n">>)]
  IN  join(steps, <<"\n", "\n">>)

(***************************************************************************)
(* Replacement-set builder                                                 *)
(***************************************************************************)
K_frontpageTitle ==
  <<"f", "r", "o", "n", "t", "p", "a", "g", "e", "T", "i", "t", "l", "e">>

K_frontpageIngredients ==
  <<"f", "r", "o", "n", "t", "p", "a", "g", "e", "I", "n", "g", "r", "e", "d", "i", "e", "n", "t", "s">>

K_recipeTitle ==
  <<"r", "e", "c", "i", "p", "e", "T", "i", "t", "l", "e", "_">>

K_recipeDay ==
  <<"r", "e", "c", "i", "p", "e", "D", "a", "y", "_">>

K_recipeIngredients ==
  <<"r", "e", "c", "i", "p", "e", "I", "n", "g", "r", "e", "d", "i", "e", "n", "t", "s", "_">>

K_recipeMethod ==
  <<"r", "e", "c", "i", "p", "e", "M", "e", "t", "h", "o", "d", "_">>

BulletSep == <<"\n", BULLET, " ">>

\* an ingredients value that starts with a bullet
createFrontpageReplacements_BulletFirst(bd) ==
  << [key |-> K_frontpageTitle, val |-> bd.frontpage.title],
     [key |-> K_frontpageIngredients,
      val |-> <<BULLET, " ">> \o join(bd.frontpage.ingredients, BulletSep)] >>

createFrontpageReplacements(bd) ==
  << [key |-> K_frontpageTitle,       val |-> bd.frontpage.title],
     [key |-> K_frontpageIngredients, val |-> join(bd.frontpage.ingredients, BulletSep)] >>

\* recipe tokens that leave the recipe number out
createRecipeReplacements_Unsuffixed(recipe, index) ==
  ObjectAssign(<<>>,
    << [key |-> K_recipeTitle,       val |-> recipe.title],
       [key |-> K_recipeDay,         val |-> NumberToString(recipe.day)],
       [key |-> K_recipeIngredients, val |-> join(recipe.ingredients, BulletSep)] >>)

createRecipeReplacements(recipe, index) ==
  LET recipeNumber == PlusOne(index)
  IN  ObjectAssign(<<>>,
        << [key |-> K_recipeTitle \o TemplateNumber(recipeNumber),
            val |-> recipe.title],
           [key |-> K_recipeDay \o TemplateNumber(recipeNumber),
            val |-> NumberToString(recipe.day)],
           [key |-> K_recipeIngredients \o TemplateNumber(recipeNumber),
            val |-> join(recipe.ingredients, BulletSep)] >>)

\* method replacements filed under the title's token
createMethodReplacements_TitleKey(recipe, index) ==
  LET headers == [k \in 1..Len(recipe.method) |->
                    IF recipe.method[k].hasHeader /\ Truthy(recipe.method[k].header)
                      THEN recipe.method[k].header ELSE <<>>]
      content == [k \in 1..Len(recipe.method) |-> recipe.method[k].text]
      recipeNumber == PlusOne(index)
  IN  << [key |-> K_recipeTitle \o TemplateNumber(recipeNumber),
          val |-> [headers |-> headers, content |-> content]] >>

createMethodReplacements(recipe, index) ==
  LET headers == [k \in 1..Len(recipe.method) |->
                    IF recipe.method[k].hasHeader /\ Truthy(recipe.method[k].header)
                      THEN recipe.method[k].header ELSE <<>>]
      content == [k \in 1..Len(recipe.method) |-> recipe.method[k].text]
      recipeNumber == PlusOne(index)
  IN  << [key |-> K_recipeMethod \o TemplateNumber(recipeNumber),
          val |-> [headers |-> headers, content |-> content]] >>

createRecipePageReplacements(recipe, index) ==
  [simple    |-> createRecipeReplacements(recipe, index),
   formatted |-> createMethodReplacements(recipe, index)]

\* recipes.forEach((recipe, index) => { Object.assign(allSimple, ...);
\* Object.assign(allFormatted, ...) }): the objects of the recipes are assigned in
\* index order onto the two empty objects
createAllRecipeReplacements(rs) ==
  LET recipeReplacements ==
        [k \in 1..Len(rs) |-> createRecipePageReplacements(rs[k], Num(k - 1))]
      allSimple ==
        ObjectAssign(<<>>, Concat([k \in 1..Len(rs) |-> recipeReplacements[k].simple]))
      allFormatted ==
        ObjectAssign(<<>>, Concat([k \in 1..Len(rs) |-> recipeReplacements[k].formatted]))
  IN  [simple |-> allSimple, formatted |-> allFormatted]

(***************************************************************************)
(* Inputs: box data and page texts                                         *)
(***************************************************************************)
S_Week1 == <<"W", "e", "e", "k", " ", "1">>
S_Eggs == <<"E", "g", "g", "s">>
S_Milk == <<"M", "i", "l", "k">>
S_Omelette == <<"O", "m", "e", "l", "e", "t", "t", "e">>
S_Whisk == <<"W", "h", "i", "s", "k">>
S_Prep == <<"P", "r", "e", "p">>
S_ChopOnions == <<"C", "h", "o", "p", " ", "o", "n", "i", "o", "n", "s">>
S_Simmer == <<"S", "i", "m", "m", "e", "r">>
S_Space == <<" ">>
S_DollarAmp == <<"$", "&">>
S_DollarDollar == <<"$", "$">>
S_DollarBefore == <<"$", BACKTICK>>
S_Soup == <<"S", "o", "u", "p">>
S_Dash == <<" ", "-", " ">>
S_a == <<"a">>
S_b == <<"b">>
S_E2E == <<"W", "e", "e", "k", " ", "1", " ", "-", " ", "E", "g", "g", "s", "\n", BULLET, " ", "M", "i", "l", "k">>

Recipe(day, title, ingredients, method) ==
  [day |-> day, title |-> title, ingredients |-> ingredients, method |-> method]

BoxDataOf(title, ingredients, rs) ==
  [frontpage |-> [title |-> title, ingredients |-> ingredients], recipes |-> rs]

R_Omelette == Recipe(1, S_Omelette, <<S_Eggs>>, <<Step(<<>>, S_Whisk)>>)

R_Soup ==
  Recipe(2, S_Soup, <<S_Eggs, S_Milk>>,
         <<Step(S_Prep, S_ChopOnions), StepNoHeader(S_Simmer)>>)

\* a recipe whose texts hold the characters replace() gives a meaning to
R_Dollar ==
  Recipe(10, S_DollarDollar, <<S_DollarBefore>>, <<Step(S_Space, S_DollarAmp)>>)

\* a recipe whose title is itself a placeholder of a later token
R_Nested ==
  Recipe(3, Placeholder(K_recipeDay \o <<"2">>), <<S_Milk>>, <<StepNoHeader(S_Whisk)>>)

\* the box of the end-to-end scenario
BD_Week1 == BoxDataOf(S_Week1, <<S_Eggs, S_Milk>>, <<R_Omelette>>)

BD_Dollar == BoxDataOf(S_DollarAmp, <<S_DollarDollar>>, <<R_Dollar>>)

BD_Nested ==
  BoxDataOf(Placeholder(K_frontpageIngredients), <<S_Eggs>>, <<R_Nested, R_Soup>>)

BD_Empty == BoxDataOf(<<>>, <<>>, <<>>)

BoxDatas == {BD_Week1, BD_Dollar, BD_Nested, BD_Empty}

PH_recipeTitle1  == Placeholder(K_recipeTitle \o <<"1">>)
PH_recipeMethod1 == Placeholder(K_recipeMethod \o <<"1">>)

\* Texts of a template's ranges: no placeholder, the end-to-end text, one
\* occurrence between other characters, repeated occurrences, and near misses
\* (other letter case, single braces, inner spaces, a longer token name).
T_E2E    == Placeholder(K_frontpageTitle) \o S_Dash \o Placeholder(K_frontpageIngredients)
T_One    == S_a \o PH_recipeTitle1 \o S_b
T_Twice  == S_a \o Placeholder(K_frontpageTitle) \o S_b \o Placeholder(K_frontpageTitle)
T_Method == PH_recipeMethod1 \o S_Space \o PH_recipeMethod1
T_Near ==
  Concat(<< <<"{", "{", "f", "r", "o", "n", "t", "p", "a", "g", "e", "t", "i", "t", "l", "e", "}", "}">>,
            <<"{">> \o K_frontpageTitle \o <<"}">>,
            <<"{", "{", " ">> \o K_recipeTitle \o <<"1", " ", "}", "}">>,
            Placeholder(K_recipeTitle \o <<"1", "0">>) >>)

\* placeholders of other names than recipeTitle_1: a longer name, another letter
\* case, spaces inside the braces
U_Longer == Placeholder(K_recipeTitle \o <<"1", "0">>)
U_Case   == Placeholder(<<"R">> \o Tail(K_recipeTitle) \o <<"1">>)
U_Spaced == <<"{", "{", " ">> \o K_recipeTitle \o <<"1", " ", "}", "}">>

\* a range that holds them around the one occurrence of {{recipeTitle_1}}
T_Mixed == U_Longer \o U_Case \o T_One \o U_Spaced

Texts == {T_Near, T_E2E, T_Twice, T_Method, T_Mixed}

MaxRanges == 2
MaxPasses == 2

RECURSIVE SeqsUpTo(_, _)
\* the sequences of at most n elements of S
SeqsUpTo(S, n) ==
  IF n = 0 THEN {<<>>}
  ELSE LET shorter == SeqsUpTo(S, n - 1)
       IN  shorter \cup {Append(s, x) : s \in {t \in shorter : Len(t) = n - 1}, x \in S}

Pages == SeqsUpTo(Texts, MaxRanges)

(***************************************************************************)
(* Placeholder substitution engine                                         *)
(***************************************************************************)
\* the replacements createRecipeDocument passes to the engine call of this mode
ReplacementsArg ==
  IF mode = "frontpage" THEN createFrontpageReplacements(boxData)
  ELSE createAllRecipeReplacements(boxData.recipes).simple

\* replacePlaceholders takes no formatted replacements
FormattedReplacementsArg ==
  IF mode = "frontpage" THEN <<>>
  ELSE createAllRecipeReplacements(boxData.recipes).formatted

\* a turn that skips a replacement that is the empty string
replaceSimple_SkipEmpty(updatedText, placeholder, replacement) ==
  IF replacement = <<>> THEN updatedText
  ELSE replace(updatedText, placeholder, replacement)

\* one turn of the loop over Object.entries(replacements); the first copy of the
\* engine replaces only `if (matches)`, the second always
replaceSimple(updatedText, placeholder, replacement) ==
  IF variant = 1
    THEN IF Occurrences(updatedText, RegExpLiteral(placeholder)) # {}
           THEN replace(updatedText, placeholder, replacement)
           ELSE updatedText
    ELSE replace(updatedText, placeholder, replacement)

\* one turn of the loop over Object.entries(formattedReplacements)
replaceFormatted(updatedText, placeholder, formatted) ==
  IF includes(updatedText, Placeholder(placeholder))
    THEN replace(updatedText, placeholder,
                 formatMethodStepsHC(formatted.headers, formatted.content))
    ELSE updatedText

RECURSIVE SimpleLoop(_, _)
SimpleLoop(updatedText, entries) ==
  IF entries = <<>> THEN updatedText
  ELSE SimpleLoop(replaceSimple(updatedText, Head(entries).key, Head(entries).val),
                  Tail(entries))

RECURSIVE FormattedLoop(_, _)
FormattedLoop(updatedText, entries) ==
  IF entries = <<>> THEN updatedText
  ELSE FormattedLoop(replaceFormatted(updatedText, Head(entries).key, Head(entries).val),
                     Tail(entries))

\* updatedText when both loops are over
UpdatedText(originalText) ==
  FormattedLoop(SimpleLoop(originalText, replacements), formattedReplacements)

\* a comparison that always asks for the write
TextChanged_Always(updatedText, originalText) == TRUE

\* if (updatedText !== originalText)
TextChanged(updatedText, originalText) == updatedText # originalText

\* a write whose span is as long as the new text
ReplaceTextCall_UpdatedLength(r, originalText, updatedText, ok) ==
  [pass |-> pass, op |-> "replaceText", range |-> r, index |-> 0,
   length |-> Len(updatedText), text |-> updatedText, original |-> originalText,
   ok |-> ok]

\* range.replaceText({ index: 0, length }, updatedText), length = originalText.length
ReplaceTextCall(r, originalText, updatedText, ok) ==
  [pass |-> pass, op |-> "replaceText", range |-> r, index |-> 0,
   length |-> Len(originalText), text |-> updatedText, original |-> originalText,
   ok |-> ok]

SyncCall(ok) ==
  [pass |-> pass, op |-> "sync", range |-> 0, index |-> 0, length |-> 0,
   text |-> <<>>, original |-> <<>>, ok |-> ok]

\* the session callback returns at once on a page with no text range (first copy only)
ReturnsOnEmpty == variant = 1 /\ Len(page) = 0

\* editContent opens a session on the current page and runs the callback
EditContent ==
  /\ pc \in {"idle", "done", "failed"}
  /\ pass < MaxPasses
  /\ pass' = pass + 1
  /\ pc' = "open"
  /\ idx' = 0
  /\ staged' = page
  /\ before' = page
  /\ outcome' = "pending"
  /\ replacements' = ReplacementsArg
  /\ formattedReplacements' = FormattedReplacementsArg
  /\ UNCHANGED <<variant, boxData, mode, page, calls>>
  /\ UNCHANGED <<fnVars, loopVars, appVars>>

\* if (session.contents.length === 0) return;
EmptyPageReturn ==
  /\ pc = "open"
  /\ ReturnsOnEmpty
  /\ pc' = "done"
  /\ outcome' = "resolved"
  /\ UNCHANGED <<variant, boxData, mode, replacements, formattedReplacements, page, idx, staged, calls, pass, before>>
  /\ UNCHANGED <<fnVars, loopVars, appVars>>

\* one turn of the loop over session.contents, replaceText (if called) succeeding
ProcessRange ==
  /\ pc = "open"
  /\ idx < Len(page)
  /\ LET originalText == page[idx + 1]
         updatedText  == UpdatedText(originalText)
     IN  IF TextChanged(updatedText, originalText)
           THEN /\ calls' = Append(calls,
                       ReplaceTextCall(idx + 1, originalText, updatedText, TRUE))
                /\ staged' = [staged EXCEPT ![idx + 1] = updatedText]
           ELSE UNCHANGED <<calls, staged>>
  /\ idx' = idx + 1
  /\ UNCHANGED <<variant, boxData, mode, replacements, formattedReplacements, page, pc, pass, before, outcome>>
  /\ UNCHANGED <<fnVars, loopVars, appVars>>

\* a turn that catches the error of replaceText and goes on to the next range
ReplaceTextThrows_Continue ==
  /\ pc = "open"
  /\ idx < Len(page)
  /\ LET originalText == page[idx + 1]
         updatedText  == UpdatedText(originalText)
     IN  /\ TextChanged(updatedText, originalText)
         /\ calls' = Append(calls,
               ReplaceTextCall(idx + 1, originalText, updatedText, FALSE))
  /\ idx' = idx + 1
  /\ UNCHANGED <<variant, boxData, mode, replacements, formattedReplacements, page, pc, staged, pass, before, outcome>>
  /\ UNCHANGED <<fnVars, loopVars, appVars>>

\* the same turn, range.replaceText throwing: the callback, editContent and the
\* engine call reject
ReplaceTextThrows ==
  /\ pc = "open"
  /\ idx < Len(page)
  /\ LET originalText == page[idx + 1]
         updatedText  == UpdatedText(originalText)
     IN  /\ TextChanged(updatedText, originalText)
         /\ calls' = Append(calls,
               ReplaceTextCall(idx + 1, originalText, updatedText, FALSE))
  /\ pc' = "failed"
  /\ outcome' = "rejected"
  /\ UNCHANGED <<variant, boxData, mode, replacements, formattedReplacements, page, idx, staged, pass, before>>
  /\ UNCHANGED <<fnVars, loopVars, appVars>>

\* a commit that does not wait for the loop over the ranges to end
Sync_Early ==
  /\ pc = "open"
  /\ idx <= Len(page)
  /\ ~ReturnsOnEmpty
  /\ calls' = Append(calls, SyncCall(TRUE))
  /\ page' = staged
  /\ pc' = "done"
  /\ outcome' = "resolved"
  /\ UNCHANGED <<variant, boxData, mode, replacements, formattedReplacements, idx, staged, pass, before>>
  /\ UNCHANGED <<fnVars, loopVars, appVars>>

\* await session.sync() resolving: the staged texts are the page's texts
Sync ==
  /\ pc = "open"
  /\ idx = Len(page)
  /\ ~ReturnsOnEmpty
  /\ calls' = Append(calls, SyncCall(TRUE))
  /\ page' = staged
  /\ pc' = "done"
  /\ outcome' = "resolved"
  /\ UNCHANGED <<variant, boxData, mode, replacements, formattedReplacements, idx, staged, pass, before>>
  /\ UNCHANGED <<fnVars, loopVars, appVars>>

\* await session.sync() rejecting
SyncThrows ==
  /\ pc = "open"
  /\ idx = Len(page)
  /\ ~ReturnsOnEmpty
  /\ calls' = Append(calls, SyncCall(FALSE))
  /\ pc' = "failed"
  /\ outcome' = "rejected"
  /\ UNCHANGED <<variant, boxData, mode, replacements, formattedReplacements, page, idx, staged, pass, before>>
  /\ UNCHANGED <<fnVars, loopVars, appVars>>

FnIdle ==
  /\ fnIn = [kind |-> "none"]
  /\ fnOut = [fn |-> "none"]

LoopIdle ==
  /\ recipes = <<>>
  /\ imageRefs = [given |-> FALSE, refs |-> <<>>]
  /\ doc = <<>>
  /\ loopPc = "idle"
  /\ i = 0
  /\ successCount = 0
  /\ failCount = 0
  /\ events = <<>>
  /\ thrown = <<>>
  /\ bookBoxData = BD_Empty

\* a message: the text of the source, ${} where a value is interpolated, and that value
Msg(text, arg) == [text |-> text, arg |-> arg]

\* the empty error message (its interpolated part is an error's message, a string)
NoError == Msg("", "")

\* the empty success message (its interpolated part is a number's digits)
NoSuccess == Msg("", <<>>)

\* the boxData state before any fetch, and after a selection changed
Null == [tag |-> "null"]

\* the arguments of fetchBoxData(boxId, week); none while no call is in flight
FetchArgs(boxId, week) == [boxId |-> boxId, week |-> week]
NoArgs == FetchArgs("", "")

AppIdle ==
  /\ version = "app"
  /\ boxes = <<>>
  /\ selectedBox = ""
  /\ selectedWeek = ""
  /\ appBoxData = Null
  /\ isLoading = FALSE
  /\ isCreatingDocument = FALSE
  /\ error = NoError
  /\ success = NoSuccess
  /\ loadPc = "idle"
  /\ submitPc = "idle"
  /\ createPc = "idle"
  /\ job = [boxData |-> Null, k |-> 0]
  /\ opsLog = <<>>
  /\ hostCalls = <<>>
  /\ uiLog = <<>>
  /\ fetchArgs = NoArgs
  /\ boxDataArgs = NoArgs

EngineIdle ==
  /\ variant = 1
  /\ boxData = BD_Empty
  /\ mode = "frontpage"
  /\ replacements = <<>>
  /\ formattedReplacements = <<>>
  /\ page = <<>>
  /\ pc = "idle"
  /\ idx = 0
  /\ staged = <<>>
  /\ calls = <<>>
  /\ pass = 0
  /\ before = <<>>
  /\ outcome = "none"

Init ==
  /\ variant \in {1, 2}
  /\ boxData \in BoxDatas
  /\ mode \in {"frontpage", "recipes"}
  /\ replacements = <<>>
  /\ formattedReplacements = <<>>
  /\ page \in Pages
  /\ pc = "idle"
  /\ idx = 0
  /\ staged = page
  /\ calls = <<>>
  /\ pass = 0
  /\ before = page
  /\ outcome = "none"
  /\ FnIdle
  /\ LoopIdle
  /\ AppIdle

Next ==
  \/ EditContent
  \/ EmptyPageReturn
  \/ ProcessRange
  \/ ReplaceTextThrows
  \/ Sync
  \/ SyncThrows

Spec == Init /\ [][Next]_vars

(***************************************************************************)
(* Properties of the substitution engine (specification Spec)              *)
(***************************************************************************)
KnownTokens == Keys(replacements) \cup Keys(formattedReplacements)

HasKnownPlaceholder(text) ==
  \E t \in KnownTokens : includes(text, Placeholder(t))

\* t is the only known token with a placeholder in text
OnlyToken(text, t) ==
  \A u \in KnownTokens \ {t} : ~includes(text, Placeholder(u))

\* the replaceText calls of the current engine call on range r
WritesOn(r) ==
  {k \in 1..Len(calls) :
     calls[k].pass = pass /\ calls[k].op = "replaceText" /\ calls[k].range = r}

\* the ranges the current engine call has finished with
Processed == 1..idx

\* the value the mappings give token t, as text
ValueOf(t) ==
  IF HasKey(replacements, t) THEN Get(replacements, t)
  ELSE LET f == Get(formattedReplacements, t)
       IN  formatMethodStepsHC(f.headers, f.content)

RECURSIVE LiteralReplaceFrom(_, _, _, _)
\* text from position p on, every occurrence of lit replaced by value as it is written
LiteralReplaceFrom(text, lit, value, p) ==
  IF \A q \in p..Len(text) : ~OccursAt(text, lit, q)
    THEN SubSeq(text, p, Len(text))
    ELSE LET q == CHOOSE q \in p..Len(text) :
                    /\ OccursAt(text, lit, q)
                    /\ \A r \in p..(q - 1) : ~OccursAt(text, lit, r)
         IN  SubSeq(text, p, q - 1) \o value
               \o LiteralReplaceFrom(text, lit, value, q + Len(lit))

\* C1: a range whose text holds no {{token}} of the simple or formatted mapping
\* gets no replaceText call, and its text stays as it was.
C1_NoPlaceholderNoWrite ==
  \A r \in 1..Len(before) :
    ~HasKnownPlaceholder(before[r]) =>
      /\ WritesOn(r) = {}
      /\ staged[r] = before[r]

\* C1 witness: a call ended having left a range without placeholders alone and
\* written another range of the same page.
C1_Witness ==
  /\ pc = "done"
  /\ Len(before) = 2
  /\ ~HasKnownPlaceholder(before[1])
  /\ WritesOn(1) = {}
  /\ WritesOn(2) # {}

\* C2 (as claimed): a range holding exactly one occurrence of {{t}} for one known
\* simple token t, and no other known placeholder, ends as the original text with
\* that occurrence replaced by the value mapped to t, all else unchanged.
C2_SingleOccurrenceReplaced ==
  \A r \in Processed :
    \A t \in Keys(replacements) :
      (Cardinality(Occurrences(before[r], Placeholder(t))) = 1 /\ OnlyToken(before[r], t))
        => LET p == CHOOSE q \in Occurrences(before[r], Placeholder(t)) : TRUE
           IN  staged[r] = SubSeq(before[r], 1, p - 1)
                             \o Get(replacements, t)
                             \o SubSeq(before[r], p + Len(Placeholder(t)), Len(before[r]))

\* C3 (as claimed): a range holding N > 1 occurrences of {{t}} (t simple or
\* formatted), and no other known placeholder, ends with every one of them
\* replaced by the same text, the value mapped to t.
C3_AllOccurrencesReplaced ==
  \A r \in Processed :
    \A t \in KnownTokens :
      (Cardinality(Occurrences(before[r], Placeholder(t))) > 1 /\ OnlyToken(before[r], t))
        => staged[r] = LiteralReplaceFrom(before[r], Placeholder(t), ValueOf(t), 1)

\* C4: when an engine call follows an earlier one on the same page and finds no
\* range holding a placeholder of the mappings, it issues no replaceText at all.
C4_SecondPassNoOp ==
  (pass >= 2 /\ \A r \in 1..Len(before) : ~HasKnownPlaceholder(before[r]))
    => \A k \in 1..Len(calls) :
         calls[k].pass = pass => calls[k].op # "replaceText"

\* C4 witness: the first call wrote and committed, the second found no
\* placeholder left, wrote nothing and ended.
C4_Witness ==
  /\ pass = 2
  /\ pc = "done"
  /\ Len(before) >= 1
  /\ \A r \in 1..Len(before) : ~HasKnownPlaceholder(before[r])
  /\ \E k \in 1..Len(calls) :
       calls[k].pass = 1 /\ calls[k].op = "replaceText" /\ calls[k].ok
  /\ \A k \in 1..Len(calls) : calls[k].pass = 2 => calls[k].op = "sync"

\* the items one after the other, each but the first led by newline, bullet, space
BulletList(items) ==
  Concat([k \in 1..Len(items) |->
            IF k = 1 THEN items[k] ELSE <<"\n", BULLET, " ">> \o items[k]])

\* C7: the frontpage ingredients token maps to the items joined by "\n• " with no
\* bullet before the first; and with title "Week 1" and ingredients Eggs, Milk the
\* range "{{frontpageTitle}} - {{frontpageIngredients}}" is written back, whole, as
\* "Week 1 - Eggs\n• Milk".
C7_EndToEnd ==
  /\ Get(createFrontpageReplacements(boxData), K_frontpageIngredients)
       = BulletList(boxData.frontpage.ingredients)
  /\ \A r \in Processed :
       ( /\ mode = "frontpage"
         /\ boxData.frontpage = [title |-> S_Week1, ingredients |-> <<S_Eggs, S_Milk>>]
         /\ before[r] = T_E2E )
       => /\ staged[r] = S_E2E
          /\ \E k \in WritesOn(r) :
               /\ calls[k].text = S_E2E
               /\ calls[k].index = 0
               /\ calls[k].length = Len(T_E2E)

\* C7 witness: the end-to-end range has been written and committed.
C7_Witness ==
  /\ mode = "frontpage"
  /\ boxData = BD_Week1
  /\ pc = "done"
  /\ \E r \in 1..Len(before) : before[r] = T_E2E /\ page[r] = S_E2E

\* C9: after a replaceText or a sync has failed, the same engine call issues no
\* further host call, and the call ends rejected.
C9_NoRetryAfterFailure ==
  /\ \A j \in 1..Len(calls) : \A k \in 1..Len(calls) :
       (j < k /\ calls[j].pass = calls[k].pass) => calls[j].ok
  /\ (calls # <<>> /\ calls[Len(calls)].pass = pass /\ ~calls[Len(calls)].ok)
       => (pc = "failed" /\ outcome = "rejected")

\* C9 witness: replaceText failed on the first of two ranges; the second range was
\* never processed and nothing was committed.
C9_Witness ==
  /\ pc = "failed"
  /\ Len(page) = 2
  /\ calls # <<>>
  /\ calls[Len(calls)].op = "replaceText"
  /\ calls[Len(calls)].range = 1
  /\ ~calls[Len(calls)].ok
  /\ idx = 0

\* C13: a range holding {{t}} for a simple token t whose value is the empty string
\* (and no other known placeholder) is written, and the text written is the
\* original with every occurrence of {{t}} deleted.
C13_EmptyValueRemoves ==
  \A r \in Processed :
    \A t \in Keys(replacements) :
      ( /\ Get(replacements, t) = <<>>
        /\ includes(before[r], Placeholder(t))
        /\ OnlyToken(before[r], t) )
      => /\ staged[r] = LiteralReplaceFrom(before[r], Placeholder(t), <<>>, 1)
         /\ staged[r] # before[r]
         /\ \E k \in WritesOn(r) : calls[k].text = staged[r]

\* C13 witness: the frontpage title is empty and both of its placeholders in
\* "a{{frontpageTitle}}b{{frontpageTitle}}" were deleted by a committed write.
C13_Witness ==
  /\ mode = "frontpage"
  /\ boxData = BD_Empty
  /\ pc = "done"
  /\ \E r \in 1..Len(before) :
       /\ before[r] = T_Twice
       /\ page[r] = S_a \o S_b
       /\ WritesOn(r) # {}

\* placeholders of names that differ from recipeTitle_1 by a longer name, by
\* letter case, or by spaces inside the braces
OtherNames == {U_Longer, U_Case, U_Spaced}

\* the positions of text where a placeholder of a known token starts
KnownStarts(text) ==
  UNION {Occurrences(text, Placeholder(t)) : t \in KnownTokens}

\* C14: a placeholder {{u}} whose name u is none of the mapping's tokens (u has a
\* token as a proper prefix, differs from it in letter case, or has spaces inside
\* the braces) is not altered by the substitution of the tokens: the text up to
\* its end stays as it was when no known placeholder starts before that end, and
\* the text from its start on stays as it was when none starts after that start.
C14_ExactNameMatch ==
  \A r \in Processed :
    LET n      == Len(before[r])
        m      == Len(staged[r])
        starts == KnownStarts(before[r])
    IN  \A u \in OtherNames :
          (\A t \in KnownTokens : Placeholder(t) # u) =>
            \A p \in Occurrences(before[r], u) :
              LET e == p + Len(u) - 1
              IN  /\ (\A q \in starts : q > e)
                       => (m >= e /\ SubSeq(staged[r], 1, e) = SubSeq(before[r], 1, e))
                  /\ (\A q \in starts : q < p)
                       => (m >= n - p + 1
                           /\ SubSeq(staged[r], m - (n - p), m) = SubSeq(before[r], p, n))

\* C14 witness: {{recipeTitle_1}} was replaced by the first recipe's title in a
\* range that also holds {{recipeTitle_10}}, {{RecipeTitle_1}} and
\* {{ recipeTitle_1 }}, and these three are still there in the committed text.
C14_Witness ==
  /\ mode = "recipes"
  /\ boxData = BD_Week1
  /\ pc = "done"
  /\ \E r \in 1..Len(before) :
       /\ before[r] = T_Mixed
       /\ page[r] = U_Longer \o U_Case \o S_a \o S_Omelette \o S_b \o U_Spaced

\* the replaceText calls of engine call number n on range r
WritesOf(n, r) ==
  {k \in 1..Len(calls) :
     calls[k].pass = n /\ calls[k].op = "replaceText" /\ calls[k].range = r}

\* C16: a range is never partially written.  Each engine call issues at most one
\* replaceText on a range; a finished range without one has its original text; a
\* replaceText covers the whole original span (index 0, length of the original
\* text) and carries the text left when all tokens have been substituted, which
\* differs from the original and (the call succeeding) is the range's new text.
C16_WholeRangeOrNothing ==
  /\ \A n \in 1..pass : \A r \in 1..Len(page) : Cardinality(WritesOf(n, r)) <= 1
  /\ \A k \in 1..Len(calls) :
       calls[k].op = "replaceText" =>
         /\ calls[k].index = 0
         /\ calls[k].length = Len(calls[k].original)
         /\ calls[k].text # calls[k].original
  /\ \A r \in Processed :
       /\ WritesOn(r) = {} => staged[r] = before[r]
       /\ \A k \in WritesOn(r) :
            /\ calls[k].original = before[r]
            /\ calls[k].text = UpdatedText(before[r])
            /\ staged[r] = calls[k].text

\* C16 witness: of two ranges one was left alone and the other written once, its
\* whole span replaced by a text of another length.
C16_Witness ==
  /\ pc = "done"
  /\ Len(before) = 2
  /\ WritesOn(1) = {}
  /\ page[1] = before[1]
  /\ \E k \in WritesOn(2) :
       /\ calls[k].length = Len(before[2])
       /\ Len(calls[k].text) # Len(before[2])
       /\ page[2] = calls[k].text

\* the session.sync calls of engine call number n
SyncsOf(n) == {k \in 1..Len(calls) : calls[k].pass = n /\ calls[k].op = "sync"}

\* C17: an engine call commits at most once; its commit is its last host call,
\* so no commit lies between two writes; every host call before the commit
\* succeeded, so there is no commit after a range threw; and when the commit is
\* issued every range of the page has been processed.
C17_SingleCommitAtEnd ==
  /\ \A n \in 1..pass : Cardinality(SyncsOf(n)) <= 1
  /\ \A n \in 1..pass : \A s \in SyncsOf(n) :
       \A k \in 1..Len(calls) :
         (calls[k].pass = n /\ k # s) => (k < s /\ calls[k].ok)
  /\ SyncsOf(pass) # {} => idx = Len(before)
  /\ (pc = "failed" /\ calls[Len(calls)].op = "replaceText") => SyncsOf(pass) = {}

\* C17 witness: two ranges were written, then one commit ended the call.
C17_Witness ==
  /\ pc = "done"
  /\ Len(before) = 2
  /\ \E s \in SyncsOf(pass) :
       /\ \E k \in WritesOn(1) : k < s
       /\ \E k \in WritesOn(2) : k < s
       /\ s = Len(calls)

\* C18 (as claimed): an engine call that has ended either resolved, having
\* committed its session exactly once, or rejected; this on every exit path, a
\* page with no text range included.
C18_CommitOrFailure ==
  /\ (pc = "done" /\ outcome = "resolved") => Cardinality(SyncsOf(pass)) = 1
  /\ pc = "failed" => outcome = "rejected"
  /\ pc \in {"done", "failed"} => outcome \in {"resolved", "rejected"}

\* the entries of obj taken in the order f, a permutation of their positions
Reordered(obj, f) == [k \in 1..Len(obj) |-> obj[f[k]]]

\* C20 (as claimed): the final text of a range is the same for every order in
\* which the simple tokens are processed and every order in which the formatted
\* tokens are, also when a value holds the placeholder of another token.
C20_OrderIndependent ==
  \A r \in Processed :
    \A f \in Permutations(1..Len(replacements)) :
      \A g \in Permutations(1..Len(formattedReplacements)) :
        staged[r] = FormattedLoop(SimpleLoop(before[r], Reordered(replacements, f)),
                                  Reordered(formattedReplacements, g))

\* C21 (as claimed): values are inserted literally.  In a range that held {{t}}
\* (and no placeholder of another known token) the text before the first
\* occurrence stays, and the value mapped to t stands at the position of that
\* occurrence character for character, whatever characters it holds.
C21_ValuesLiteral ==
  \A r \in Processed :
    \A t \in KnownTokens :
      (includes(before[r], Placeholder(t)) /\ OnlyToken(before[r], t))
        => LET p == CHOOSE q \in Occurrences(before[r], Placeholder(t)) :
                      \A o \in Occurrences(before[r], Placeholder(t)) : q <= o
           IN  /\ Len(staged[r]) >= p - 1
               /\ SubSeq(staged[r], 1, p - 1) = SubSeq(before[r], 1, p - 1)
               /\ OccursAt(staged[r], ValueOf(t), p)

(***************************************************************************)
(* The builders and the formatters applied to inputs (specification SpecFn)*)
(***************************************************************************)
MaxSteps   == 2
MaxRecipes == 11
MaxIndex   == 9

StepPool ==
  { Step(S_Prep, S_ChopOnions), Step(<<>>, S_Simmer), Step(S_Space, S_a),
    Step(<<"\n", " ", "\t">>, S_b), Step(<<" ", "P">>, S_Whisk), StepNoHeader(S_b) }

MethodLists == SeqsUpTo(StepPool, MaxSteps)

RecipePool == <<R_Omelette, R_Soup, R_Dollar, R_Nested>>

\* n recipes taken in turn from the pool, starting after the first o
RecipeList(n, o) == [k \in 1..n |-> RecipePool[((k - 1 + o) % Len(RecipePool)) + 1]]

RecipeLists == {RecipeList(n, o) : n \in 0..MaxRecipes, o \in 0..(Len(RecipePool) - 1)}

Indexes == {Undefined} \cup {Num(k) : k \in 0..MaxIndex}

FnInput(kind, method, rs, recipe, index, bd) ==
  [kind |-> kind, method |-> method, recipes |-> rs, recipe |-> recipe,
   index |-> index, boxData |-> bd]

FnInputs ==
       {FnInput("method", m, <<>>, R_Omelette, Undefined, BD_Empty) : m \in MethodLists}
  \cup {FnInput("recipes", <<>>, rs, R_Omelette, Undefined, BD_Empty) : rs \in RecipeLists}
  \cup {FnInput("recipe", <<>>, <<>>, RecipePool[k], x, BD_Empty) :
          k \in 1..Len(RecipePool), x \in Indexes}
  \cup {FnInput("box", <<>>, <<>>, R_Omelette, Undefined, bd) : bd \in BoxDatas}

FnResult(fn, text, textHC, simple, formatted) ==
  [fn |-> fn, text |-> text, textHC |-> textHC, simple |-> simple,
   formatted |-> formatted]

\* formatMethodSteps(recipe.method) of the page generator, and the engine's
\* formatMethodSteps on the headers and content createMethodReplacements makes
ApplyFormatMethodSteps ==
  /\ fnIn.kind = "method"
  /\ fnOut.fn = "none"
  /\ LET f == createMethodReplacements(Recipe(1, <<>>, <<>>, fnIn.method), Num(0))[1].val
     IN  fnOut' = FnResult("formatMethodSteps", formatMethodSteps(fnIn.method),
                           formatMethodStepsHC(f.headers, f.content), <<>>, <<>>)
  /\ UNCHANGED <<fnIn, engineVars, loopVars, appVars>>

\* createRecipePageReplacements(recipe, index), index passed or not
ApplyCreateRecipePageReplacements ==
  /\ fnIn.kind = "recipe"
  /\ fnOut.fn = "none"
  /\ LET r == createRecipePageReplacements(fnIn.recipe, fnIn.index)
     IN  fnOut' = FnResult("createRecipePageReplacements", <<>>, <<>>,
                           r.simple, r.formatted)
  /\ UNCHANGED <<fnIn, engineVars, loopVars, appVars>>

ApplyCreateAllRecipeReplacements ==
  /\ fnIn.kind = "recipes"
  /\ fnOut.fn = "none"
  /\ LET r == createAllRecipeReplacements(fnIn.recipes)
     IN  fnOut' = FnResult("createAllRecipeReplacements", <<>>, <<>>,
                           r.simple, r.formatted)
  /\ UNCHANGED <<fnIn, engineVars, loopVars, appVars>>

ApplyCreateFrontpageReplacements ==
  /\ fnIn.kind = "box"
  /\ fnOut.fn = "none"
  /\ fnOut' = FnResult("createFrontpageReplacements", <<>>, <<>>,
                       createFrontpageReplacements(fnIn.boxData), <<>>)
  /\ UNCHANGED <<fnIn, engineVars, loopVars, appVars>>

InitFn ==
  /\ fnIn \in FnInputs
  /\ fnOut = [fn |-> "none"]
  /\ EngineIdle
  /\ LoopIdle
  /\ AppIdle

NextFn ==
  \/ ApplyFormatMethodSteps
  \/ ApplyCreateRecipePageReplacements
  \/ ApplyCreateAllRecipeReplacements
  \/ ApplyCreateFrontpageReplacements

SpecFn == InitFn /\ [][NextFn]_vars

\* a step as the formatter is to show it
RenderedStep(step) ==
  IF step.hasHeader /\ \E k \in 1..Len(step.header) : ~IsWhiteSpace(step.header[k])
    THEN <<"*", "*">> \o step.header \o <<"*", "*", "\n">> \o step.text
    ELSE step.text

RECURSIVE RenderedSteps(_)
\* the steps in source order, two newlines between one and the next
RenderedSteps(method) ==
  IF method = <<>> THEN <<>>
  ELSE IF Len(method) = 1 THEN RenderedStep(method[1])
  ELSE RenderedSteps(SubSeq(method, 1, Len(method) - 1))
         \o <<"\n", "\n">> \o RenderedStep(method[Len(method)])

S_PrepExample == <<"*", "*", "P", "r", "e", "p", "*", "*", "\n", "C", "h", "o", "p", " ", "o", "n", "i", "o", "n", "s", "\n", "\n", "S", "i", "m", "m", "e", "r">>

\* C5: a step with a header that is present and not whitespace-only is rendered
\* **header**, newline, body; any other step as its body; the steps are joined in
\* order by two newlines; no step gives the empty string; and
\* [(Prep, Chop onions), ("", Simmer)] gives "**Prep**\nChop onions\n\nSimmer".
\* Both formatters (the page generator's and the engine's) do so.
C5_FormatSteps ==
  fnOut.fn = "formatMethodSteps" =>
    /\ fnOut.text = RenderedSteps(fnIn.method)
    /\ fnOut.textHC = RenderedSteps(fnIn.method)
    /\ fnIn.method = <<>> => fnOut.text = <<>>
    /\ fnIn.method = <<Step(S_Prep, S_ChopOnions), Step(<<>>, S_Simmer)>>
         => fnOut.text = S_PrepExample

\* C5 witness: a list with a whitespace-only header and a real header has been
\* formatted, the first step without bold markers.
C5_Witness ==
  /\ fnOut.fn = "formatMethodSteps"
  /\ Len(fnIn.method) = 2
  /\ fnIn.method[1] = Step(S_Space, S_a)
  /\ fnIn.method[2] = Step(S_Prep, S_ChopOnions)
  /\ fnOut.text = S_a \o <<"\n", "\n">> \o Bold(S_Prep) \o <<"\n">> \o S_ChopOnions

\* the decimal numeral of k, 1 <= k <= 99
Numeral(k) ==
  LET digits == <<"0", "1", "2", "3", "4", "5", "6", "7", "8", "9">>
  IN  IF k < 10 THEN <<digits[k + 1]>>
      ELSE <<digits[(k \div 10) + 1], digits[(k % 10) + 1]>>

\* C6: for n recipes createAllRecipeReplacements gives exactly 3n simple tokens
\* (recipeTitle_k, recipeDay_k, recipeIngredients_k, k = 1..n) and n formatted
\* tokens (recipeMethod_k), all distinct, each holding its own recipe's data
\* (15 and 5 for n = 5).
C6_TokensUnique ==
  fnOut.fn = "createAllRecipeReplacements" =>
    LET n == Len(fnIn.recipes)
    IN  /\ Len(fnOut.simple) = 3 * n
        /\ Cardinality(Keys(fnOut.simple)) = 3 * n
        /\ Len(fnOut.formatted) = n
        /\ Cardinality(Keys(fnOut.formatted)) = n
        /\ Keys(fnOut.simple) \cap Keys(fnOut.formatted) = {}
        /\ Keys(fnOut.simple) =
             UNION {{K_recipeTitle \o Numeral(k), K_recipeDay \o Numeral(k),
                     K_recipeIngredients \o Numeral(k)} : k \in 1..n}
        /\ Keys(fnOut.formatted) = {K_recipeMethod \o Numeral(k) : k \in 1..n}
        /\ \A k \in 1..n :
             /\ Get(fnOut.simple, K_recipeTitle \o Numeral(k)) = fnIn.recipes[k].title
             /\ Len(Get(fnOut.formatted, K_recipeMethod \o Numeral(k)).content)
                  = Len(fnIn.recipes[k].method)
        /\ n = 5 => (Len(fnOut.simple) = 15 /\ Len(fnOut.formatted) = 5)

\* C6 witness: five recipes gave fifteen simple and five formatted tokens.
C6_Witness ==
  /\ fnOut.fn = "createAllRecipeReplacements"
  /\ Len(fnIn.recipes) = 5
  /\ Cardinality(Keys(fnOut.simple)) = 15
  /\ Cardinality(Keys(fnOut.formatted)) = 5

\* a token prefix without its trailing underscore
Unsuffixed(prefix) == SubSeq(prefix, 1, Len(prefix) - 1)

\* C10 (as claimed): called without an index the recipe builders give the
\* unsuffixed tokens recipeTitle, recipeDay, recipeIngredients and recipeMethod;
\* called with an index they give the tokens suffixed _(index+1).
C10_UnsuffixedWithoutIndex ==
  fnOut.fn = "createRecipePageReplacements" =>
    IF fnIn.index = Undefined
      THEN /\ Keys(fnOut.simple) = {Unsuffixed(K_recipeTitle), Unsuffixed(K_recipeDay),
                                    Unsuffixed(K_recipeIngredients)}
           /\ Keys(fnOut.formatted) = {Unsuffixed(K_recipeMethod)}
      ELSE /\ Keys(fnOut.simple) =
                {K_recipeTitle \o Numeral(fnIn.index.n + 1),
                 K_recipeDay \o Numeral(fnIn.index.n + 1),
                 K_recipeIngredients \o Numeral(fnIn.index.n + 1)}
           /\ Keys(fnOut.formatted) = {K_recipeMethod \o Numeral(fnIn.index.n + 1)}

\* C15: the tokens of the simple mapping the builder makes (the frontpage tokens
\* and the simple recipe tokens) and the tokens of its formatted mapping have no
\* name in common.
C15_MappingsDisjoint ==
  fnOut.fn \in {"createAllRecipeReplacements", "createRecipePageReplacements"} =>
    (Keys(createFrontpageReplacements(fnIn.boxData)) \cup Keys(fnOut.simple))
      \cap Keys(fnOut.formatted) = {}

\* C15 witness: the builder made the mappings of three recipes, nine simple
\* tokens and three formatted ones.
C15_Witness ==
  /\ fnOut.fn = "createAllRecipeReplacements"
  /\ Len(fnIn.recipes) = 3
  /\ Len(fnOut.simple) = 9
  /\ Len(fnOut.formatted) = 3

\* C24: for a method list, formatMethodSteps(method) of the page generator and
\* the engine's formatMethodSteps(headers, content), given the headers and the
\* content createMethodReplacements makes of the same list, give the same text.
C24_FormattersAgree ==
  fnOut.fn = "formatMethodSteps" => fnOut.text = fnOut.textHC

\* C24 witness: both formatters gave "**Prep**\nChop onions\n\na" for a step with
\* a header followed by a step whose header is one space.
C24_Witness ==
  /\ fnOut.fn = "formatMethodSteps"
  /\ fnIn.method = <<Step(S_Prep, S_ChopOnions), Step(S_Space, S_a)>>
  /\ fnOut.textHC = Bold(S_Prep) \o <<"\n">> \o S_ChopOnions \o <<"\n", "\n">> \o S_a
  /\ fnOut.text = fnOut.textHC

(***************************************************************************)
(* createAllRecipePages (specification SpecPages)                          *)
(***************************************************************************)
MaxPages == 3

\* the timeout between two pages, in milliseconds
DelayMs == 500

S_Day == <<"D", "a", "y", " ">>
S_IngredientsLabel == <<"I", "n", "g", "r", "e", "d", "i", "e", "n", "t", "s", ":">>
S_MethodLabel == <<"M", "e", "t", "h", "o", "d", ":">>
S_FailedToCreate == <<"F", "a", "i", "l", "e", "d", " ", "t", "o", " ", "c", "r", "e", "a", "t", "e", " ">>
S_OutOf == <<" ", "o", "u", "t", " ", "o", "f", " ">>
S_RecipePages == <<" ", "r", "e", "c", "i", "p", "e", " ", "p", "a", "g", "e", "s">>

\* an optional ImageRef[] argument
NoImageRefs     == [given |-> FALSE, refs |-> <<>>]
ImageRefsOf(rf) == [given |-> TRUE, refs |-> rf]

\* arr[k] of a JavaScript array, k 0-based
At(arr, k) == IF k + 1 <= Len(arr) THEN arr[k + 1] ELSE "undefined"

TextElement(children) == [type |-> "text", content |-> children]
ImageElement(ref)     == [type |-> "image", content |-> ref]

Min(a, b) == IF a <= b THEN a ELSE b

\* the elements createRecipePage builds for the page it adds
Elements(recipe, recipeImages) ==
  LET main  == IF recipeImages.given /\ Len(recipeImages.refs) > 0
                 THEN <<ImageElement(recipeImages.refs[1])>> ELSE <<>>
      more  == IF recipeImages.given /\ Len(recipeImages.refs) > 1
                 THEN [k \in 1..(Min(Len(recipeImages.refs), 3) - 1) |->
                         ImageElement(recipeImages.refs[k + 1])]
                 ELSE <<>>
  IN  << TextElement(recipe.title),
         TextElement(S_Day \o NumberToString(recipe.day)) >>
      \o main
      \o << TextElement(S_IngredientsLabel),
            TextElement(join(recipe.ingredients, BulletSep)),
            TextElement(S_MethodLabel),
            TextElement(formatMethodSteps(recipe.method)) >>
      \o more

\* the argument of addPage
AddPageArg(recipe, recipeImages) ==
  [title |-> recipe.title, elements |-> Elements(recipe, recipeImages)]

\* recipeImages of the loop body for the current i
RecipeImages ==
  IF imageRefs.given THEN ImageRefsOf(<<At(imageRefs.refs, i)>>) ELSE NoImageRefs

\* the message of the error thrown after the loop
FailMessage ==
  S_FailedToCreate \o NumberToString(failCount) \o S_OutOf
    \o NumberToString(Len(recipes)) \o S_RecipePages

AddPageErrors == {"quota_exceeded", "rate_limited"}

\* the loop body when addPage resolves: the page is in the design, the count
\* goes up and, unless this was the last recipe, the timeout is awaited
AddPageResolves ==
  /\ loopPc = "loop"
  /\ i < Len(recipes)
  /\ doc' = Append(doc, AddPageArg(recipes[i + 1], RecipeImages))
  /\ successCount' = successCount + 1
  /\ events' = Append(events, [op |-> "addPage", index |-> i, ok |-> TRUE,
                               code |-> "none", ms |-> 0, title |-> recipes[i + 1].title])
  /\ IF i < Len(recipes) - 1
       THEN loopPc' = "delay" /\ i' = i
       ELSE loopPc' = "loop" /\ i' = i + 1
  /\ UNCHANGED <<recipes, imageRefs, bookBoxData, failCount, thrown, engineVars, fnVars, appVars>>

\* an aborted loop: the first rejection ends the call
AddPageRejects_Abort ==
  /\ loopPc = "loop"
  /\ i < Len(recipes)
  /\ \E code \in AddPageErrors :
       /\ events' = Append(events, [op |-> "addPage", index |-> i, ok |-> FALSE,
                                    code |-> code, ms |-> 0, title |-> recipes[i + 1].title])
       /\ thrown' = <<code>>
  /\ failCount' = failCount + 1
  /\ loopPc' = "failed"
  /\ UNCHANGED <<recipes, imageRefs, bookBoxData, doc, i, successCount, engineVars, fnVars, appVars>>

\* the loop body when addPage rejects: createRecipePage rethrows, the catch of
\* the loop counts the failure and the loop goes on
AddPageRejects ==
  /\ loopPc = "loop"
  /\ i < Len(recipes)
  /\ \E code \in AddPageErrors :
       events' = Append(events, [op |-> "addPage", index |-> i, ok |-> FALSE,
                                 code |-> code, ms |-> 0, title |-> recipes[i + 1].title])
  /\ failCount' = failCount + 1
  /\ i' = i + 1
  /\ UNCHANGED <<recipes, imageRefs, bookBoxData, doc, loopPc, successCount, thrown, engineVars, fnVars, appVars>>

\* the timeout after a page that was created and is not the last
Delay ==
  /\ loopPc = "delay"
  /\ events' = Append(events, [op |-> "delay", index |-> i, ok |-> TRUE,
                               code |-> "none", ms |-> DelayMs, title |-> <<>>])
  /\ i' = i + 1
  /\ loopPc' = "loop"
  /\ UNCHANGED <<recipes, imageRefs, bookBoxData, doc, successCount, failCount, thrown, engineVars, fnVars, appVars>>

\* after the loop: the call rejects when a page failed, resolves otherwise
Finish ==
  /\ loopPc = "loop"
  /\ i >= Len(recipes)
  /\ IF failCount > 0
       THEN loopPc' = "failed" /\ thrown' = FailMessage
       ELSE loopPc' = "done" /\ thrown' = thrown
  /\ UNCHANGED <<recipes, imageRefs, bookBoxData, doc, i, successCount, failCount, events, engineVars, fnVars, appVars>>

PagePool == {R_Omelette, R_Soup, R_Dollar}

ImageRefPool == {NoImageRefs, ImageRefsOf(<<>>), ImageRefsOf(<<"img1", "img2">>)}

InitPages ==
  /\ recipes \in SeqsUpTo(PagePool, MaxPages)
  /\ imageRefs \in ImageRefPool
  /\ doc = <<>>
  /\ loopPc = "loop"
  /\ i = 0
  /\ successCount = 0
  /\ failCount = 0
  /\ events = <<>>
  /\ thrown = <<>>
  /\ bookBoxData = BD_Empty
  /\ EngineIdle
  /\ FnIdle
  /\ AppIdle

NextPages ==
  \/ AddPageResolves
  \/ AddPageRejects
  \/ Delay
  \/ Finish

SpecPages == InitPages /\ [][NextPages]_vars

\* the addPage attempts so far, in order
Attempts == SelectSeq(events, LAMBDA e : e.op = "addPage")

Settled == loopPc \in {"done", "failed"}

\* C8: every recipe gets one page-creation attempt, in index order, whether or
\* not an earlier one failed; the pages that were added stay in the design;
\* successCount + failCount is the number of attempts and, once the call has
\* settled, the number of recipes; the call fails exactly when failCount > 0,
\* with an error naming failCount out of the number of recipes.
C8_ContinueAfterFailure ==
  LET n == Len(recipes)
      good == SelectSeq(Attempts, LAMBDA e : e.ok)
      bad  == SelectSeq(Attempts, LAMBDA e : ~e.ok)
  IN  /\ \A k \in 1..Len(Attempts) :
           Attempts[k].index = k - 1 /\ Attempts[k].title = recipes[k].title
      /\ Len(Attempts) <= n
      /\ successCount = Len(good)
      /\ failCount = Len(bad)
      /\ Len(doc) = Len(good)
      /\ \A k \in 1..Len(good) : doc[k].title = good[k].title
      /\ Settled =>
           /\ Len(Attempts) = n
           /\ successCount + failCount = n
           /\ (loopPc = "failed") <=> (failCount > 0)
           /\ loopPc = "failed" =>
                thrown = S_FailedToCreate \o Numeral(failCount) \o S_OutOf
                           \o Numeral(n) \o S_RecipePages

\* C8 witness: three recipes, the second page failed, the first and the third are
\* in the design, and the call failed naming 1 out of 3.
C8_Witness ==
  /\ loopPc = "failed"
  /\ Len(recipes) = 3
  /\ Len(Attempts) = 3
  /\ Attempts[1].ok /\ ~Attempts[2].ok /\ Attempts[3].ok
  /\ successCount = 2
  /\ failCount = 1
  /\ Len(doc) = 2
  /\ doc[1].title = recipes[1].title
  /\ doc[2].title = recipes[3].title
  /\ thrown = <<"F", "a", "i", "l", "e", "d", " ", "t", "o", " ", "c", "r", "e", "a", "t", "e", " ", "1", " ", "o", "u", "t", " ", "o", "f", " ", "3", " ", "r", "e", "c", "i", "p", "e", " ", "p", "a", "g", "e", "s">>

\* the addPage calls issued so far, as positions in events
AddPages == {k \in 1..Len(events) : events[k].op = "addPage"}

\* C19 (as claimed): between the addPage for one recipe and the addPage for the
\* next the delay elapses, whether the first of the two succeeded or failed.
C19_DelayBetweenAddPages ==
  \A j \in AddPages : \A k \in AddPages :
    (j < k /\ events[k].index = events[j].index + 1)
      => \E d \in (j + 1)..(k - 1) :
           events[d].op = "delay" /\ events[d].ms = DelayMs

(***************************************************************************)
(* createCompleteRecipeBook (specification SpecBook)                       *)
(***************************************************************************)
ElementDelayMs == 100
BookDelayMs == 1000

S_RecipeBoxContents == <<"R", "e", "c", "i", "p", "e", " ", "B", "o", "x", " ", "C", "o", "n", "t", "e", "n", "t", "s">>
S_BoxIngredients == <<"B", "o", "x", " ", "I", "n", "g", "r", "e", "d", "i", "e", "n", "t", "s", ":">>

\* the elements populateCurrentPageWithFrontPage lists, by their text
FrontPageElements(bd) ==
  << bd.frontpage.title,
     S_RecipeBoxContents,
     S_BoxIngredients,
     join(bd.frontpage.ingredients, BulletSep) >>

\* the addElementAtPoint calls so far, as positions in events
AddElements == {k \in 1..Len(events) : events[k].op = "addElementAtPoint"}

\* the element the loop of populateCurrentPageWithFrontPage is at (0-based)
ElementIndex == Cardinality(AddElements)

\* await addElementAtPoint(element) resolves
AddElementResolves ==
  /\ loopPc = "frontpage"
  /\ ElementIndex < Len(FrontPageElements(bookBoxData))
  /\ events' = Append(events,
       [op |-> "addElementAtPoint", index |-> ElementIndex, ok |-> TRUE, code |-> "none",
        ms |-> 0, title |-> FrontPageElements(bookBoxData)[ElementIndex + 1]])
  /\ loopPc' = "elementDelay"
  /\ UNCHANGED <<recipes, imageRefs, bookBoxData, doc, i, successCount, failCount, thrown, engineVars, fnVars, appVars>>

\* a populateCurrentPageWithFrontPage that goes on to the next element when
\* addElementAtPoint rejects
AddElementRejects_Continue ==
  /\ loopPc = "frontpage"
  /\ ElementIndex < Len(FrontPageElements(bookBoxData))
  /\ \E code \in AddPageErrors :
       events' = Append(events,
         [op |-> "addElementAtPoint", index |-> ElementIndex, ok |-> FALSE, code |-> code,
          ms |-> 0, title |-> FrontPageElements(bookBoxData)[ElementIndex + 1]])
  /\ loopPc' = "elementDelay"
  /\ UNCHANGED <<recipes, imageRefs, bookBoxData, doc, i, successCount, failCount, thrown, engineVars, fnVars, appVars>>

\* await addElementAtPoint(element) rejects: populateCurrentPageWithFrontPage
\* rethrows, and so does createCompleteRecipeBook
AddElementRejects ==
  /\ loopPc = "frontpage"
  /\ ElementIndex < Len(FrontPageElements(bookBoxData))
  /\ \E code \in AddPageErrors :
       /\ events' = Append(events,
            [op |-> "addElementAtPoint", index |-> ElementIndex, ok |-> FALSE, code |-> code,
             ms |-> 0, title |-> FrontPageElements(bookBoxData)[ElementIndex + 1]])
       /\ thrown' = <<code>>
  /\ loopPc' = "failed"
  /\ UNCHANGED <<recipes, imageRefs, bookBoxData, doc, i, successCount, failCount, engineVars, fnVars, appVars>>

\* the timeout after each element; after the last one populateCurrentPageWithFrontPage
\* resolves
ElementDelay ==
  /\ loopPc = "elementDelay"
  /\ events' = Append(events, [op |-> "delay", index |-> ElementIndex - 1, ok |-> TRUE,
                               code |-> "none", ms |-> ElementDelayMs, title |-> <<>>])
  /\ loopPc' = IF ElementIndex < Len(FrontPageElements(bookBoxData))
                 THEN "frontpage" ELSE "bookDelay"
  /\ UNCHANGED <<recipes, imageRefs, bookBoxData, doc, i, successCount, failCount, thrown, engineVars, fnVars, appVars>>

\* the timeout before the recipe pages; createAllRecipePages(recipes, imageRefs)
\* is called next
BookDelay ==
  /\ loopPc = "bookDelay"
  /\ events' = Append(events, [op |-> "delay", index |-> 0, ok |-> TRUE,
                               code |-> "none", ms |-> BookDelayMs, title |-> <<>>])
  /\ loopPc' = "loop"
  /\ UNCHANGED <<recipes, imageRefs, bookBoxData, doc, i, successCount, failCount, thrown, engineVars, fnVars, appVars>>

BookBoxDatas == {BD_Week1, BD_Empty}

InitBook ==
  /\ bookBoxData \in BookBoxDatas
  /\ recipes \in SeqsUpTo(PagePool, MaxPages)
  /\ imageRefs \in ImageRefPool
  /\ doc = <<>>
  /\ loopPc = "frontpage"
  /\ i = 0
  /\ successCount = 0
  /\ failCount = 0
  /\ events = <<>>
  /\ thrown = <<>>
  /\ EngineIdle
  /\ FnIdle
  /\ AppIdle

NextBook ==
  \/ AddElementResolves
  \/ AddElementRejects
  \/ ElementDelay
  \/ BookDelay
  \/ AddPageResolves
  \/ AddPageRejects
  \/ Delay
  \/ Finish

SpecBook == InitBook /\ [][NextBook]_vars

\* C26: no addPage comes before the four front-page elements have been added, in
\* the order title, "Recipe Box Contents", "Box Ingredients:", ingredient list;
\* and after an element failed to be added no element and no page is added, the
\* call having failed with that error.
C26_FrontPageFirst ==
  /\ \A k \in AddElements :
       /\ events[k].index = Cardinality({j \in AddElements : j < k})
       /\ events[k].index < Len(FrontPageElements(bookBoxData))
       /\ events[k].title = FrontPageElements(bookBoxData)[events[k].index + 1]
  /\ \A p \in AddPages :
       \A n \in 0..(Len(FrontPageElements(bookBoxData)) - 1) :
         \E k \in AddElements : k < p /\ events[k].index = n /\ events[k].ok
  /\ \A k \in AddElements :
       ~events[k].ok =>
         /\ \A j \in (k + 1)..Len(events) :
              events[j].op \notin {"addElementAtPoint", "addPage"}
         /\ loopPc = "failed"
         /\ thrown = <<events[k].code>>

\* C26 witness: the four elements were added, then two recipe pages, and the call
\* resolved.
C26_Witness ==
  /\ loopPc = "done"
  /\ bookBoxData = BD_Week1
  /\ Cardinality(AddElements) = Len(FrontPageElements(bookBoxData))
  /\ Cardinality(AddPages) = 2
  /\ \A k \in AddElements : \A p \in AddPages : k < p

(***************************************************************************)
(* The App: loadBoxes, the selects, handleSubmit and createRecipeDocument   *)
(* (specification SpecApp)                                                 *)
(***************************************************************************)
\* handler invocations in a run, and how many of them may be createRecipeDocument
MaxOps == 3
MaxCreates == 1

Box(id) == [id |-> id]

\* what fetchBoxes may resolve with
BoxesPool == { <<>>, <<Box("box1"), Box("box2")>> }

\* the values of the week options
WeekValues == {"week1"}

\* what fetchBoxData may resolve with
FetchPool == {BD_Nested, BD_Empty}

\* values a rejected promise carries
CanvaError(code, message) == [kind |-> "CanvaError", code |-> code, message |-> message]
JsError(message)          == [kind |-> "Error", code |-> "", message |-> message]
NonError                  == [kind |-> "other", code |-> "", message |-> ""]
NoThrow                   == [kind |-> "none", code |-> "", message |-> ""]

\* what a host call may reject with
Throwables ==
  { CanvaError("quota_exceeded", "quota"), CanvaError("rate_limited", "slow down"),
    CanvaError("internal_error", "boom"), JsError("range gone"), NonError }

M_SelectBoth  == Msg("Please select both a box and a week", "")
M_FetchFailed == Msg("Failed to fetch recipe data", "")
M_LoadFailed  == Msg("Failed to load boxes", "")
M_NoData      == Msg("No recipe data available", "")
M_Quota       == Msg("Cannot add more pages. Please remove existing pages and try again.", "")
M_Rate        == Msg("Rate limited. Please wait a moment and try again.", "")

\* a catch that gives every failure the generic message
ErrorFor_Generic(err) == Msg("Failed to create document: ${}", "Unknown error")

\* the message the catch of createRecipeDocument sets for what was thrown
ErrorFor(err) ==
  IF err.kind = "CanvaError"
    THEN CASE err.code = "quota_exceeded" -> M_Quota
           [] err.code = "rate_limited"   -> M_Rate
           [] OTHER -> Msg("Canva error: ${}", err.message)
    ELSE Msg("Failed to create document: ${}",
             IF err.kind = "Error" THEN err.message ELSE "Unknown error")

\* the success message of the version that runs
SuccessFor(bd) ==
  IF version = "app"
    THEN Msg("Successfully created recipe document with ${} recipes!",
             NumberToString(Len(bd.recipes)))
    ELSE Msg("Successfully filled placeholders on current page! Navigate to other pages in your template and run this again to fill all pages.", <<>>)

UiCall(op, setter, msg, flag) == [op |-> op, setter |-> setter, msg |-> msg, flag |-> flag]
HostCall(op, name, k)        == [op |-> op, name |-> name, k |-> k]
Op(handler, ending, err)     == [handler |-> handler, ending |-> ending, thrown |-> err]

\* loadBoxes, started on mount, when fetchBoxes resolves
LoadBoxesResolves ==
  /\ loadPc = "fetchBoxes"
  /\ \E bs \in BoxesPool : boxes' = bs
  /\ loadPc' = "done"
  /\ UNCHANGED <<version, selectedBox, selectedWeek, appBoxData, isLoading, isCreatingDocument, error, success, submitPc, createPc, job, opsLog, hostCalls, uiLog>>
  /\ UNCHANGED <<fetchArgs, boxDataArgs>>
  /\ UNCHANGED <<engineVars, fnVars, loopVars>>

\* loadBoxes when fetchBoxes rejects
LoadBoxesRejects ==
  /\ loadPc = "fetchBoxes"
  /\ error' = M_LoadFailed
  /\ loadPc' = "done"
  /\ UNCHANGED <<version, boxes, selectedBox, selectedWeek, appBoxData, isLoading, isCreatingDocument, success, submitPc, createPc, job, opsLog, hostCalls, uiLog>>
  /\ UNCHANGED <<fetchArgs, boxDataArgs>>
  /\ UNCHANGED <<engineVars, fnVars, loopVars>>

\* onChange of the box select: one of the options made from boxes
SelectBox ==
  /\ \E k \in 1..Len(boxes) :
       /\ boxes[k].id # selectedBox
       /\ selectedBox' = boxes[k].id
  /\ appBoxData' = Null
  /\ boxDataArgs' = NoArgs
  /\ UNCHANGED <<version, boxes, selectedWeek, isLoading, isCreatingDocument, error, success, loadPc, submitPc, createPc, job, opsLog, hostCalls, uiLog>>
  /\ UNCHANGED fetchArgs
  /\ UNCHANGED <<engineVars, fnVars, loopVars>>

\* onChange of the week select
SelectWeek ==
  /\ \E w \in WeekValues :
       /\ w # selectedWeek
       /\ selectedWeek' = w
  /\ appBoxData' = Null
  /\ boxDataArgs' = NoArgs
  /\ UNCHANGED <<version, boxes, selectedBox, isLoading, isCreatingDocument, error, success, loadPc, submitPc, createPc, job, opsLog, hostCalls, uiLog>>
  /\ UNCHANGED fetchArgs
  /\ UNCHANGED <<engineVars, fnVars, loopVars>>

\* the invocation of handler that has not ended yet
RunningOp(handler) ==
  CHOOSE o \in 1..Len(opsLog) :
    opsLog[o].handler = handler /\ opsLog[o].ending = "running"

\* a handleSubmit that fetches whatever is selected
HandleSubmit_NoValidation ==
  /\ ~isLoading
  /\ Len(opsLog) < MaxOps
  /\ isLoading' = TRUE
  /\ error' = NoError
  /\ fetchArgs' = FetchArgs(selectedBox, selectedWeek)
  /\ submitPc' = "fetchBoxData"
  /\ opsLog' = Append(opsLog, Op("handleSubmit", "running", NoThrow))
  /\ UNCHANGED <<version, boxes, selectedBox, selectedWeek, appBoxData, isCreatingDocument, success, loadPc, createPc, job, hostCalls, uiLog>>
  /\ UNCHANGED boxDataArgs
  /\ UNCHANGED <<engineVars, fnVars, loopVars>>

\* handleSubmit up to its await; the button shows loading while isLoading
HandleSubmit ==
  /\ ~isLoading
  /\ Len(opsLog) < MaxOps
  /\ IF selectedBox = "" \/ selectedWeek = ""
       THEN /\ error' = M_SelectBoth
            /\ opsLog' = Append(opsLog, Op("handleSubmit", "returned", NoThrow))
            /\ UNCHANGED <<isLoading, submitPc, fetchArgs>>
       ELSE /\ isLoading' = TRUE
            /\ error' = NoError
            /\ fetchArgs' = FetchArgs(selectedBox, selectedWeek)
            /\ submitPc' = "fetchBoxData"
            /\ opsLog' = Append(opsLog, Op("handleSubmit", "running", NoThrow))
  /\ UNCHANGED <<version, boxes, selectedBox, selectedWeek, appBoxData, isCreatingDocument, success, loadPc, createPc, job, hostCalls, uiLog>>
  /\ UNCHANGED boxDataArgs
  /\ UNCHANGED <<engineVars, fnVars, loopVars>>

\* handleSubmit when fetchBoxData resolves
FetchBoxDataResolves ==
  /\ submitPc = "fetchBoxData"
  /\ \E data \in FetchPool : appBoxData' = data
  /\ boxDataArgs' = fetchArgs
  /\ isLoading' = FALSE
  /\ submitPc' = "idle"
  /\ opsLog' = [opsLog EXCEPT ![RunningOp("handleSubmit")].ending = "resolved"]
  /\ UNCHANGED <<version, boxes, selectedBox, selectedWeek, isCreatingDocument, error, success, loadPc, createPc, job, hostCalls, uiLog>>
  /\ UNCHANGED fetchArgs
  /\ UNCHANGED <<engineVars, fnVars, loopVars>>

\* a rejection handled without the finally: isLoading stays as it is
FetchBoxDataRejects_NoFinally ==
  /\ submitPc = "fetchBoxData"
  /\ error' = M_FetchFailed
  /\ submitPc' = "idle"
  /\ opsLog' = [opsLog EXCEPT ![RunningOp("handleSubmit")].ending = "failed"]
  /\ UNCHANGED <<version, boxes, selectedBox, selectedWeek, appBoxData, isLoading, isCreatingDocument, success, loadPc, createPc, job, hostCalls, uiLog>>
  /\ UNCHANGED <<fetchArgs, boxDataArgs>>
  /\ UNCHANGED <<engineVars, fnVars, loopVars>>

\* handleSubmit when fetchBoxData rejects
FetchBoxDataRejects ==
  /\ submitPc = "fetchBoxData"
  /\ error' = M_FetchFailed
  /\ isLoading' = FALSE
  /\ submitPc' = "idle"
  /\ opsLog' = [opsLog EXCEPT ![RunningOp("handleSubmit")].ending = "failed"]
  /\ UNCHANGED <<version, boxes, selectedBox, selectedWeek, appBoxData, isCreatingDocument, success, loadPc, createPc, job, hostCalls, uiLog>>
  /\ UNCHANGED <<fetchArgs, boxDataArgs>>
  /\ UNCHANGED <<engineVars, fnVars, loopVars>>

\* createRecipeDocument goes on to await the host call name for recipe k
Calls(name, k) ==
  /\ hostCalls' = Append(hostCalls, HostCall(RunningOp("createRecipeDocument"), name, k))
  /\ createPc' = name
  /\ job' = [job EXCEPT !.k = k]
  /\ UNCHANGED <<isCreatingDocument, error, success, opsLog, uiLog>>

\* the catch and the finally of createRecipeDocument for what was thrown
Fails(err) ==
  LET op == RunningOp("createRecipeDocument")
  IN  /\ error' = ErrorFor(err)
      /\ isCreatingDocument' = FALSE
      /\ uiLog' = uiLog \o << UiCall(op, "setError", ErrorFor(err), FALSE),
                              UiCall(op, "setIsCreatingDocument", NoError, FALSE) >>
      /\ opsLog' = [opsLog EXCEPT ![op] = Op("createRecipeDocument", "failed", err)]
      /\ createPc' = "idle"
      /\ UNCHANGED <<success, job, hostCalls>>

\* the end of the try block and the finally
Succeeds ==
  LET op == RunningOp("createRecipeDocument")
  IN  /\ success' = SuccessFor(job.boxData)
      /\ isCreatingDocument' = FALSE
      /\ uiLog' = uiLog \o << UiCall(op, "setSuccess", SuccessFor(job.boxData), FALSE),
                              UiCall(op, "setIsCreatingDocument", NoError, FALSE) >>
      /\ opsLog' = [opsLog EXCEPT ![op].ending = "resolved"]
      /\ createPc' = "idle"
      /\ UNCHANGED <<error, job, hostCalls>>

S_BoxNotFound == "Selected box not found"
S_CannotAddPages == "Cannot add pages in this design type"

\* the invocations of createRecipeDocument so far
Creates == SelectSeq(opsLog, LAMBDA o : o.handler = "createRecipeDocument")

\* createRecipeDocument up to its first await; its button is shown when there is
\* boxData and shows loading while isCreatingDocument
CreateRecipeDocument ==
  /\ appBoxData # Null
  /\ ~isCreatingDocument
  /\ Len(opsLog) < MaxOps
  /\ Len(Creates) < MaxCreates
  /\ LET op      == Len(opsLog) + 1
         started == << UiCall(op, "setIsCreatingDocument", NoError, TRUE),
                       UiCall(op, "setError", NoError, FALSE),
                       UiCall(op, "setSuccess", NoSuccess, FALSE) >>
         notFound == JsError(S_BoxNotFound)
         first   == IF version = "app" THEN "getDesignMetadata" ELSE "replacePlaceholders"
     IN  IF appBoxData = Null \/ selectedBox = ""
           THEN /\ error' = M_NoData
                /\ uiLog' = Append(uiLog, UiCall(op, "setError", M_NoData, FALSE))
                /\ opsLog' = Append(opsLog, Op("createRecipeDocument", "returned", NoThrow))
                /\ UNCHANGED <<isCreatingDocument, success, createPc, job, hostCalls>>
           ELSE IF \A k \in 1..Len(boxes) : boxes[k].id # selectedBox
             THEN /\ error' = ErrorFor(notFound)
                  /\ success' = NoSuccess
                  /\ isCreatingDocument' = FALSE
                  /\ uiLog' = uiLog \o started
                                \o << UiCall(op, "setError", ErrorFor(notFound), FALSE),
                                      UiCall(op, "setIsCreatingDocument", NoError, FALSE) >>
                  /\ opsLog' = Append(opsLog, Op("createRecipeDocument", "failed", notFound))
                  /\ UNCHANGED <<createPc, job, hostCalls>>
             ELSE /\ isCreatingDocument' = TRUE
                  /\ error' = NoError
                  /\ success' = NoSuccess
                  /\ uiLog' = uiLog \o started
                  /\ opsLog' = Append(opsLog, Op("createRecipeDocument", "running", NoThrow))
                  /\ job' = [boxData |-> appBoxData, k |-> 0]
                  /\ hostCalls' = Append(hostCalls, HostCall(op, first, 0))
                  /\ createPc' = first
  /\ UNCHANGED <<version, boxes, selectedBox, selectedWeek, appBoxData, isLoading, loadPc, submitPc>>
  /\ UNCHANGED <<fetchArgs, boxDataArgs>>
  /\ UNCHANGED <<engineVars, fnVars, loopVars>>

\* getDesignMetadata resolves, with or without defaultPageDimensions
GetDesignMetadataResolves ==
  /\ createPc = "getDesignMetadata"
  /\ \E defaultPageDimensions \in BOOLEAN :
       IF defaultPageDimensions
         THEN Calls("replacePlaceholders", 0)
         ELSE Fails(JsError(S_CannotAddPages))
  /\ UNCHANGED <<version, boxes, selectedBox, selectedWeek, appBoxData, isLoading, loadPc, submitPc>>
  /\ UNCHANGED <<fetchArgs, boxDataArgs>>
  /\ UNCHANGED <<engineVars, fnVars, loopVars>>

\* replacePlaceholders(frontpageReplacements) resolves
ReplacePlaceholdersResolves ==
  /\ createPc = "replacePlaceholders"
  /\ IF version = "app"
       THEN IF job.boxData.recipes = <<>>
              THEN Succeeds
              ELSE Calls("addPage", 0)
       ELSE Calls("replacePlaceholdersWithFormatting", 0)
  /\ UNCHANGED <<version, boxes, selectedBox, selectedWeek, appBoxData, isLoading, loadPc, submitPc>>
  /\ UNCHANGED <<fetchArgs, boxDataArgs>>
  /\ UNCHANGED <<engineVars, fnVars, loopVars>>

\* addPage for the recipe of this turn of the loop resolves
RecipePageAdded ==
  /\ createPc = "addPage"
  /\ Calls("replacePlaceholdersWithFormatting", job.k)
  /\ UNCHANGED <<version, boxes, selectedBox, selectedWeek, appBoxData, isLoading, loadPc, submitPc>>
  /\ UNCHANGED <<fetchArgs, boxDataArgs>>
  /\ UNCHANGED <<engineVars, fnVars, loopVars>>

\* replacePlaceholdersWithFormatting resolves
ReplacePlaceholdersWithFormattingResolves ==
  /\ createPc = "replacePlaceholdersWithFormatting"
  /\ IF version = "app" /\ job.k + 1 < Len(job.boxData.recipes)
       THEN Calls("addPage", job.k + 1)
       ELSE Succeeds
  /\ UNCHANGED <<version, boxes, selectedBox, selectedWeek, appBoxData, isLoading, loadPc, submitPc>>
  /\ UNCHANGED <<fetchArgs, boxDataArgs>>
  /\ UNCHANGED <<engineVars, fnVars, loopVars>>

\* the awaited host call rejects
HostCallRejects ==
  /\ createPc # "idle"
  /\ \E err \in Throwables : Fails(err)
  /\ UNCHANGED <<version, boxes, selectedBox, selectedWeek, appBoxData, isLoading, loadPc, submitPc>>
  /\ UNCHANGED <<fetchArgs, boxDataArgs>>
  /\ UNCHANGED <<engineVars, fnVars, loopVars>>

InitApp ==
  /\ version \in {"app", "part_001"}
  /\ boxes = <<>>
  /\ selectedBox = ""
  /\ selectedWeek = ""
  /\ appBoxData = Null
  /\ isLoading = FALSE
  /\ isCreatingDocument = FALSE
  /\ error = NoError
  /\ success = NoSuccess
  /\ loadPc = "fetchBoxes"
  /\ submitPc = "idle"
  /\ createPc = "idle"
  /\ job = [boxData |-> Null, k |-> 0]
  /\ opsLog = <<>>
  /\ hostCalls = <<>>
  /\ uiLog = <<>>
  /\ fetchArgs = NoArgs
  /\ boxDataArgs = NoArgs
  /\ EngineIdle
  /\ FnIdle
  /\ LoopIdle

NextApp ==
  \/ LoadBoxesResolves
  \/ LoadBoxesRejects
  \/ SelectBox
  \/ SelectWeek
  \/ HandleSubmit
  \/ FetchBoxDataResolves
  \/ FetchBoxDataRejects
  \/ CreateRecipeDocument
  \/ GetDesignMetadataResolves
  \/ ReplacePlaceholdersResolves
  \/ RecipePageAdded
  \/ ReplacePlaceholdersWithFormattingResolves
  \/ HostCallRejects

SpecApp == InitApp /\ [][NextApp]_vars

\* the invocations of createRecipeDocument that ended in its catch
FailedCreates ==
  {o \in 1..Len(opsLog) :
     opsLog[o].handler = "createRecipeDocument" /\ opsLog[o].ending = "failed"}

\* the non-empty messages invocation o passed to setter
MessagesSet(o, setter, none) ==
  SelectSeq(uiLog, LAMBDA e : e.op = o /\ e.setter = setter /\ e.msg # none)

\* the host calls invocation o issued
HostCallsOf(o) == SelectSeq(hostCalls, LAMBDA c : c.op = o)

\* C11: a createRecipeDocument that failed set exactly one error message, the one
\* of the failure kind (quota_exceeded: cannot add more pages; rate_limited: wait
\* and try again; another host error: "Canva error:" and its text; anything else:
\* the "Failed to create document:" message); it set no success message; it issued
\* no host call twice; and when no createRecipeDocument runs isCreatingDocument is
\* false, the success message being empty if the last one failed.
C11_FailureIsTerminal ==
  /\ \A o \in FailedCreates :
       LET err  == opsLog[o].thrown
           errs == MessagesSet(o, "setError", NoError)
           flags == SelectSeq(uiLog, LAMBDA e : e.op = o /\ e.setter = "setIsCreatingDocument")
           issued == HostCallsOf(o)
       IN  /\ Len(errs) = 1
           /\ IF err.kind = "CanvaError" /\ err.code = "quota_exceeded"
                THEN errs[1].msg = M_Quota
              ELSE IF err.kind = "CanvaError" /\ err.code = "rate_limited"
                THEN errs[1].msg = M_Rate
              ELSE IF err.kind = "CanvaError"
                THEN errs[1].msg = Msg("Canva error: ${}", err.message)
              ELSE errs[1].msg.text = "Failed to create document: ${}"
           /\ MessagesSet(o, "setSuccess", NoSuccess) = <<>>
           /\ flags # <<>> /\ ~flags[Len(flags)].flag
           /\ \A a \in 1..Len(issued) : \A b \in 1..Len(issued) :
                (issued[a].name = issued[b].name /\ issued[a].k = issued[b].k) => a = b
  /\ createPc = "idle" => ~isCreatingDocument
  /\ \A o \in FailedCreates :
       (createPc = "idle" /\ \A p \in (o + 1)..Len(opsLog) :
                               opsLog[p].handler # "createRecipeDocument")
         => success = NoSuccess

\* C11 witness: the wait-and-retry message is shown after a rate-limited addPage,
\* with the frontpage already replaced and no document being created.
C11_Witness ==
  \E o \in FailedCreates :
    /\ opsLog[o].thrown = CanvaError("rate_limited", "slow down")
    /\ HostCallsOf(o)[Len(HostCallsOf(o))].name = "addPage"
    /\ error = M_Rate
    /\ success = NoSuccess
    /\ ~isCreatingDocument
    /\ createPc = "idle"

\* C12: a handleSubmit that runs with the box or the week not selected issues no
\* fetchBoxData call, sets the error to the missing-selection message and leaves
\* isLoading and boxData as they were.
C12_ValidationBlocksSubmit ==
  [][ ( /\ Len(opsLog') = Len(opsLog) + 1
        /\ opsLog'[Len(opsLog')].handler = "handleSubmit"
        /\ (selectedBox = "" \/ selectedWeek = "") )
      => ( /\ submitPc' = submitPc
           /\ fetchArgs' = fetchArgs
           /\ error' = M_SelectBoth
           /\ isLoading' = isLoading
           /\ appBoxData' = appBoxData ) ]_vars

\* C12 witness: with a box selected and no week, handleSubmit returned at the
\* validation, and nothing was fetched.
C12_Witness ==
  /\ selectedBox # ""
  /\ selectedWeek = ""
  /\ opsLog # <<>>
  /\ opsLog[Len(opsLog)] = Op("handleSubmit", "returned", NoThrow)
  /\ error = M_SelectBoth
  /\ submitPc = "idle"
  /\ fetchArgs = NoArgs
  /\ ~isLoading
  /\ appBoxData = Null

\* C22 (as claimed): whenever boxData is not null it came from a fetchBoxData
\* issued with the box and the week that are selected now, however the changes
\* of selection interleave with a fetch in flight.
C22_BoxDataOfSelection ==
  appBoxData # Null => boxDataArgs = FetchArgs(selectedBox, selectedWeek)

\* C23 (as claimed): when no Get Recipes and no Create Recipe Document is
\* running, the error message and the success message are not both non-empty.
C23_ErrorOrSuccess ==
  (submitPc = "idle" /\ createPc = "idle") => ~(error # NoError /\ success # NoSuccess)

\* the promise handleSubmit awaits settles
FetchSettles == FetchBoxDataResolves \/ FetchBoxDataRejects

\* the promise createRecipeDocument awaits settles
HostCallSettles ==
  \/ GetDesignMetadataResolves
  \/ ReplacePlaceholdersResolves
  \/ RecipePageAdded
  \/ ReplacePlaceholdersWithFormattingResolves
  \/ HostCallRejects

\* the App when every awaited data-source or host call settles
SpecAppLive == SpecApp /\ WF_vars(FetchSettles) /\ WF_vars(HostCallSettles)

\* C25: isLoading is true exactly while handleSubmit awaits fetchBoxData, and
\* isCreatingDocument exactly while createRecipeDocument awaits a host call; a
\* flag that is true is false again later, the awaited calls settling (resolved
\* or rejected).
C25_FlagsReleased ==
  /\ [](isLoading <=> submitPc = "fetchBoxData")
  /\ [](isCreatingDocument <=> createPc # "idle")
  /\ isLoading ~> ~isLoading
  /\ isCreatingDocument ~> ~isCreatingDocument

\* C25 witness: a handleSubmit whose fetch was rejected and a createRecipeDocument
\* whose host call was rejected have both ended, and both flags are false.
C25_Witness ==
  /\ ~isLoading
  /\ ~isCreatingDocument
  /\ \E o \in 1..Len(opsLog) :
       opsLog[o].handler = "handleSubmit" /\ opsLog[o].ending = "failed"
  /\ \E o \in FailedCreates : opsLog[o].thrown \in Throwables

====
